---- MODULE Spec2Model ----
(***************************************************************************)
(* Model of ss_lv_monitor.py: the extraction -> deduplication -> matching  *)
(* pipeline of SSLVMonitor.                                                *)
(*                                                                         *)
(* Text is a sequence of one-character strings.  Characters outside ASCII  *)
(* are written as tokens: "EURO" is the euro sign, "SUP2" the superscript  *)
(* two, "a_macron"/"A_MACRON" the Latvian long a.  Numbers produced by the *)
(* field normalizers are fixed-point integers in hundredths (float value   *)
(* times 100), exact for texts with at most two fractional digits.         *)
(***************************************************************************)
EXTENDS Integers, Sequences, FiniteSets, TLC

VARIABLES pc, src, response, listings, pos, known_listings, file,
          new_matching_listings, criteria,
          runNo, runStartKnown, runIds, saveCount, lastSave, fileBeforeSave,
          prevResponses, curResponses, continuity, stateLost, reported,
          rejected, notified, probeIn, probeOut

vars == <<pc, src, response, listings, pos, known_listings, file,
          new_matching_listings, criteria,
          runNo, runStartKnown, runIds, saveCount, lastSave, fileBeforeSave,
          prevResponses, curResponses, continuity, stateLost, reported,
          rejected, notified, probeIn, probeOut>>

----------------------------------------------------------------------------
(* Text helpers *)

Digits == {"0", "1", "2", "3", "4", "5", "6", "7", "8", "9"}

DigitVal(c) ==
    CASE c = "0" -> 0 [] c = "1" -> 1 [] c = "2" -> 2 [] c = "3" -> 3
      [] c = "4" -> 4 [] c = "5" -> 5 [] c = "6" -> 6 [] c = "7" -> 7
      [] c = "8" -> 8 [] c = "9" -> 9

UpperChars == <<"A", "B", "C", "D", "E", "F", "G", "H", "I", "J", "K", "L", "M",
                "N", "O", "P", "Q", "R", "S", "T", "U", "V", "W", "X", "Y", "Z",
                "A_MACRON">>
LowerChars == <<"a", "b", "c", "d", "e", "f", "g", "h", "i", "j", "k", "l", "m",
                "n", "o", "p", "q", "r", "s", "t", "u", "v", "w", "x", "y", "z",
                "a_macron">>

\* str.lower() on one character
LowerChar(c) ==
    IF \E i \in 1..Len(UpperChars) : UpperChars[i] = c
    THEN LowerChars[CHOOSE i \in 1..Len(UpperChars) : UpperChars[i] = c]
    ELSE c

\* str.lower()
Lower(t) == [i \in 1..Len(t) |-> LowerChar(t[i])]

\* Python's  pat in t  (substring test; the empty pattern is in every text)
Contains(t, pat) ==
    \E i \in 0..(Len(t) - Len(pat)) :
        \A j \in 1..Len(pat) : t[i + j] = pat[j]

\* value of the first n characters of a text of digits
RECURSIVE DigitsValue(_, _)
DigitsValue(ds, n) ==
    IF n = 0 THEN 0 ELSE 10 * DigitsValue(ds, n - 1) + DigitVal(ds[n])

DigitsToNat(ds) == DigitsValue(ds, Len(ds))

\* float() of a text of digits and periods, in hundredths; -1 is ValueError
ParseFloat(s) ==
    LET dots == {i \in 1..Len(s) : s[i] = "."}
        nd   == Cardinality({i \in 1..Len(s) : s[i] \in Digits})
    IN  IF nd = 0 \/ Cardinality(dots) > 1 THEN -1
        ELSE IF dots = {} THEN 100 * DigitsToNat(s)
        ELSE LET d    == CHOOSE i \in dots : TRUE
                 ip   == SubSeq(s, 1, d - 1)
                 fp   == SubSeq(s, d + 1, Len(s))
                 f2   == SubSeq(fp \o <<"0", "0">>, 1, 2)
             IN  100 * DigitsToNat(ip) + DigitsToNat(f2)

----------------------------------------------------------------------------
(* Field normalizers *)

extract_price(price_text) ==
    IF price_text = <<>> THEN 0
    ELSE LET kept  == SelectSeq(price_text,
                                LAMBDA c : c \in Digits \cup {",", "."})
             clean == SelectSeq(kept, LAMBDA c : c # ",")
             v     == ParseFloat(clean)
         IN  IF v < 0 THEN 0 ELSE v

extract_area(area_text) ==
    LET starts == {i \in 1..Len(area_text) : area_text[i] \in Digits}
    IN  IF area_text = <<>> \/ starts = {} THEN 0
        ELSE LET b  == CHOOSE i \in starts : \A k \in starts : i <= k
                 \* last index of the digit run that begins at i
                 RunEnd(i) == CHOOSE e \in i..Len(area_text) :
                                 /\ \A k \in i..e : area_text[k] \in Digits
                                 /\ (e = Len(area_text)
                                       \/ area_text[e + 1] \notin Digits)
                 e1 == RunEnd(b)
                 hasFrac == /\ e1 + 2 <= Len(area_text)
                            /\ area_text[e1 + 1] = "."
                            /\ area_text[e1 + 2] \in Digits
                 e2 == IF hasFrac THEN RunEnd(e1 + 2) ELSE e1
             IN  ParseFloat(SubSeq(area_text, b, e2))

----------------------------------------------------------------------------
(* Criteria matcher *)

\* any(keyword.lower() in text_content for keyword in kws)
AnyKeywordIn(kws, text_content) ==
    \E k \in 1..Len(kws) : Contains(text_content, Lower(kws[k]))

\* a mis-typed bound check: rejects a price equal to max_price
PriceOutOfRange_strict(price, crit) ==
    price < crit.min_price \/ price >= crit.max_price

PriceOutOfRange(price, crit) ==
    price < crit.min_price \/ price > crit.max_price

meets_criteria(listing, crit) ==
    IF listing.price > 0 /\ PriceOutOfRange(listing.price, crit) THEN FALSE
    ELSE IF listing.area > 0 /\ listing.area < crit.min_area THEN FALSE
    ELSE LET text_content ==
                 Lower(listing.title \o <<" ">> \o listing.description)
         IN  IF /\ crit.keywords_include # <<>>
                /\ ~AnyKeywordIn(crit.keywords_include, text_content)
             THEN FALSE
             ELSE IF /\ crit.keywords_exclude # <<>>
                     /\ AnyKeywordIn(crit.keywords_exclude, text_content)
             THEN FALSE
             ELSE TRUE

----------------------------------------------------------------------------
(* Record extractor.  A page is a sequence of rows; a row is                *)
(* [idattr, cells]: idattr is the id attribute as a sequence of tokens      *)
(* (<<>> when the row has none), a cell is [text, href]: text is            *)
(* get_text(strip=True), href the target of the cell's first anchor (<<>>   *)
(* when the cell has no anchor or the anchor has no usable href).           *)

ListingPrefix == "tr_"
SiteOrigin    == "https://www.ss.lv"

\* x and x.startswith('tr_')
IsListingRow(row) == row.idattr # <<>> /\ Head(row.idattr) = ListingPrefix

\* str.replace('tr_', ''): removes every occurrence
StripListingPrefix(idattr) == SelectSeq(idattr, LAMBDA t : t # ListingPrefix)

HasPriceMarker(t) == Contains(t, <<"EURO">>) \/ Contains(t, <<"E", "U", "R">>)
HasAreaMarker(t)  == Contains(t, <<"m", "SUP2">>) \/ Contains(t, <<"m", "2">>)

\* the least index of a set of cell indices, 0 when the set is empty
\* (a  for cell in cells  loop that stops at its first hit)
FirstIndex(hits) ==
    IF hits = {} THEN 0 ELSE CHOOSE i \in hits : \A k \in hits : i <= k

\* first cell whose first anchor has a non-empty href
TitleCellIndex(cells) ==
    FirstIndex({i \in 1..Len(cells) : cells[i].href # <<>>})

\* first cell with a currency marker
PriceCellIndex(cells) ==
    FirstIndex({i \in 1..Len(cells) : HasPriceMarker(cells[i].text)})

\* first cell with an area marker
AreaCellIndex(cells) ==
    FirstIndex({i \in 1..Len(cells) : HasAreaMarker(cells[i].text)})

\* cells that go into the description
InDescription(text, title) ==
    /\ text # <<>>
    /\ text # title
    /\ ~Contains(text, <<"EURO">>)
    /\ ~Contains(text, <<"m", "SUP2">>)

Separator == <<" ", "|", " ">>

RECURSIVE Join(_)
Join(parts) ==
    IF parts = <<>> THEN <<>>
    ELSE IF Len(parts) = 1 THEN parts[1]
    ELSE parts[1] \o Separator \o Join(Tail(parts))

CellTexts(cells) == [i \in 1..Len(cells) |-> cells[i].text]

MinCells == 4

\* body of the per-row loop: <<record>>, or <<>> when the row is skipped
ScrapeRow(row, url) ==
    LET listing_id == StripListingPrefix(row.idattr)
        cells      == row.cells
        ti         == TitleCellIndex(cells)
    IN  IF listing_id = <<>> THEN <<>>
        ELSE IF Len(cells) < MinCells THEN <<>>
        ELSE IF ti = 0 THEN <<>>
        ELSE LET href  == cells[ti].href
                 link  == IF Head(href) = "http" THEN href
                          ELSE <<SiteOrigin>> \o href
                 title == cells[ti].text
                 pi    == PriceCellIndex(cells)
                 ai    == AreaCellIndex(cells)
                 price == IF pi = 0 THEN 0 ELSE extract_price(cells[pi].text)
                 area  == IF ai = 0 THEN 0 ELSE extract_area(cells[ai].text)
                 description_parts ==
                     SelectSeq(CellTexts(cells),
                               LAMBDA t : InDescription(t, title))
             IN  << [id          |-> listing_id,
                     title       |-> title,
                     price       |-> price,
                     area        |-> area,
                     description |-> Join(description_parts),
                     link        |-> link,
                     source_url  |-> url] >>

\* a loop that stops at the first row it cannot use instead of skipping it
RECURSIVE ScrapeRows_break(_, _)
ScrapeRows_break(rows, url) ==
    IF rows = <<>> THEN <<>>
    ELSE IF ScrapeRow(Head(rows), url) = <<>> THEN <<>>
    ELSE ScrapeRow(Head(rows), url) \o ScrapeRows_break(Tail(rows), url)

RECURSIVE ScrapeRows(_, _)
ScrapeRows(rows, url) ==
    IF rows = <<>> THEN <<>>
    ELSE ScrapeRow(Head(rows), url) \o ScrapeRows(Tail(rows), url)

\* resp is [ok, page]: ok is FALSE when session.get, raise_for_status or
\* the parser raised; the except handler then leaves listings empty
scrape_listings(resp, url) ==
    IF ~resp.ok THEN <<>>
    ELSE ScrapeRows(SelectSeq(resp.page, IsListingRow), url)

----------------------------------------------------------------------------
(* Seen-state store.  The durable file is [st, ids]: st is "absent", "ok"  *)
(* (valid JSON holding ids) or "corrupt" (truncated or partial content).   *)

\* a load that never finds the stored ids
load_known_listings_empty(f, readOk) == {}

\* readOk is FALSE when open or json.load raises on an existing file
load_known_listings(f, readOk) ==
    IF f.st = "ok" /\ readOk THEN f.ids ELSE {}

SaveOutcomes == {"ok", "open_fail", "write_fail"}

\* a save that writes back what the file already held
save_known_listings_stale(known, f, outcome) ==
    IF outcome = "ok"
    THEN [st |-> "ok", ids |-> IF f.st = "ok" THEN f.ids ELSE {}]
    ELSE IF outcome = "open_fail" THEN f
    ELSE [st |-> "corrupt", ids |-> {}]

\* open(DATA_FILE, 'w') truncates the file before json.dump writes to it:
\* "open_fail" raises in open and touches nothing, "write_fail" raises in
\* json.dump or in the flush on close, after the truncation
save_known_listings(known, f, outcome) ==
    IF outcome = "ok" THEN [st |-> "ok", ids |-> known]
    ELSE IF outcome = "open_fail" THEN f
    ELSE [st |-> "corrupt", ids |-> {}]

\* an insert that forgets to insert
MarkKnown_noop(known, id) == known

\* an insert that replaces the set
MarkKnown_replace(known, id) == {id}

\* self.known_listings.add(listing_id)
MarkKnown(known, id) == known \cup {id}

----------------------------------------------------------------------------
(* Inputs: texts, cells, rows, pages, filters *)

TxtMaja     == <<"M", "a_macron", "j", "a">>
TxtZeme     == <<"Z", "e", "m", "e">>
TxtOlaine   == <<"O", "l", "a", "i", "n", "e">>
TxtBojats   == <<"b", "o", "j", "a_macron", "t", "s">>
TxtArea80   == <<"8", "0", " ", "m", "SUP2">>
TxtArea40   == <<"4", "0", ".", "5", " ", "m", "SUP2">>
TxtArea80a  == <<"8", "0", " ", "m", "2">>
TxtPrice50  == <<"5", "0", ",", "0", "0", "0", " ", "EURO">>
TxtPrice200 == <<"2", "0", "0", ",", "0", "0", "0", " ", "EURO">>
TxtPrice50e == <<"5", "0", "0", "0", "0", " ", "E", "U", "R">>

Cell(t, h) == [text |-> t, href |-> h]

CellMaja   == Cell(TxtMaja, <<"/msg/1.html">>)
CellZeme   == Cell(TxtZeme, <<"http", "://www.ss.lv/msg/2.html">>)
CellOlaine == Cell(TxtOlaine, <<>>)
CellBojats == Cell(TxtBojats, <<>>)
CellEmpty  == Cell(<<>>, <<>>)

Row(i, cs) == [idattr |-> i, cells |-> cs]

\* accepted by the configured criteria
RowA1 == Row(<<"tr_", "a1">>,
             <<CellMaja, CellOlaine, Cell(TxtArea80, <<>>),
               Cell(TxtPrice50, <<>>)>>)
\* price above max_price
RowA2 == Row(<<"tr_", "a2">>,
             <<CellMaja, CellOlaine, Cell(TxtArea80, <<>>),
               Cell(TxtPrice200, <<>>)>>)
\* no cell holds a link
RowA3 == Row(<<"tr_", "a3">>,
             <<Cell(TxtMaja, <<>>), CellOlaine, Cell(TxtArea80, <<>>),
               Cell(TxtPrice50, <<>>)>>)
\* a link, but fewer than four cells
RowA4 == Row(<<"tr_", "a4">>,
             <<CellMaja, Cell(TxtArea80, <<>>), Cell(TxtPrice50, <<>>)>>)
\* price given with the currency code, area with the ASCII unit
RowA5 == Row(<<"tr_", "a5">>,
             <<CellZeme, CellOlaine, Cell(TxtArea80a, <<>>),
               Cell(TxtPrice50e, <<>>)>>)
\* no price cell and no area cell; an excluded keyword; a cell repeating
\* the title
RowA6 == Row(<<"tr_", "a6">>,
             <<CellEmpty, CellMaja, Cell(TxtMaja, <<>>), CellBojats>>)
\* area below min_area
RowA7 == Row(<<"tr_", "a7">>,
             <<CellMaja, CellOlaine, Cell(TxtArea40, <<>>),
               Cell(TxtPrice50, <<>>)>>)
\* the id attribute is the bare prefix
RowNoId == Row(<<"tr_">>,
               <<CellMaja, CellOlaine, Cell(TxtArea80, <<>>),
                 Cell(TxtPrice50, <<>>)>>)
\* the prefix occurs twice and nothing else
RowPrefix2 == Row(<<"tr_", "tr_">>,
                  <<CellMaja, CellOlaine, Cell(TxtArea80, <<>>),
                    Cell(TxtPrice50, <<>>)>>)
\* the prefix occurs again inside the id
RowInner == Row(<<"tr_", "a8", "tr_", "b">>,
                <<CellZeme, CellOlaine, Cell(TxtArea80, <<>>),
                  Cell(TxtPrice50, <<>>)>>)
\* not a listing row: the id has another prefix, or there is no id
RowHead  == Row(<<"head_line">>, <<CellMaja, CellOlaine, CellOlaine, CellOlaine>>)
RowPlain == Row(<<>>, <<CellMaja, CellOlaine, CellOlaine, CellOlaine>>)

RowCatalogue == {RowA1, RowA2, RowA3, RowA4, RowA5, RowA6, RowA7, RowNoId,
                 RowPrefix2, RowInner, RowHead, RowPlain}

PageA == <<RowHead, RowA1, RowA3, RowA2>>
PageB == <<RowA5, RowA1, RowA5>>

Ok(page) == [ok |-> TRUE, page |-> page]
Failed   == [ok |-> FALSE, page |-> <<>>]

Responses == {Ok(PageA), Ok(PageB), Failed}

\* SEARCH_CRITERIA as configured (keyword lists shortened), in hundredths
Configured == [min_price |-> 10000 * 100, max_price |-> 150000 * 100,
               min_area |-> 50 * 100,
               keywords_include |-> <<<<"m", "a_macron", "j", "a">>,
                                      <<"z", "e", "m", "e">>>>,
               keywords_exclude |-> <<TxtBojats>>]
\* relaxed criteria: no keywords, wide bounds
Relaxed == [min_price |-> 0, max_price |-> 1000000 * 100, min_area |-> 0,
            keywords_include |-> <<>>, keywords_exclude |-> <<>>]
\* keywords written in upper case
UpperCase == [min_price |-> 10000 * 100, max_price |-> 150000 * 100,
              min_area |-> 50 * 100,
              keywords_include |-> <<<<"M", "A_MACRON", "J", "A">>>>,
              keywords_exclude |-> <<<<"O", "L", "A">>>>]
\* only an exclude list
ExcludeOnly == [min_price |-> 0, max_price |-> 150000 * 100, min_area |-> 0,
                keywords_include |-> <<>>,
                keywords_exclude |-> <<TxtBojats, <<"z", "e">>>>]

Filters      == {Configured, Relaxed}
MatchFilters == {Configured, Relaxed, UpperCase, ExcludeOnly}

InitFiles == {[st |-> "absent", ids |-> {}],
              [st |-> "corrupt", ids |-> {}],
              [st |-> "ok", ids |-> {<<"a1">>}],
              [st |-> "ok", ids |-> {<<"a2">>, <<"a5">>}]}

NumSources == 2
MaxRuns    == 2
MaxRows    == 3

----------------------------------------------------------------------------
(* Run orchestrator.  pc is the phase of the run:                          *)
(*   Idle -> Fetching -> Extracting -> Classifying -> ... -> Persisting    *)
(*        -> Done -> Idle                                                  *)
(* History variables (not program state): runNo, runStartKnown, runIds,    *)
(* saveCount, lastSave, fileBeforeSave, prevResponses, curResponses,       *)
(* continuity, stateLost, reported, rejected, notified.                    *)

NoProbe == [kind |-> "none"]
NoOut   == [done |-> FALSE]

PipelineIdle ==
    /\ pc = "Idle"
    /\ src = 0
    /\ response = Failed
    /\ listings = <<>>
    /\ pos = 0
    /\ new_matching_listings = <<>>
    /\ criteria = Configured
    /\ runNo = 0
    /\ runIds = {}
    /\ saveCount = 0
    /\ lastSave = "none"
    /\ prevResponses = <<>>
    /\ curResponses = <<>>
    /\ continuity = "same"
    /\ stateLost = FALSE
    /\ reported = [once |-> {}, more |-> {}]
    /\ rejected = {}
    /\ notified = "none"

\* SSLVMonitor.__init__ over any durable file
Init ==
    /\ PipelineIdle
    /\ file \in InitFiles
    /\ \E readOk \in BOOLEAN :
           known_listings = load_known_listings(file, readOk)
    /\ runStartKnown = known_listings
    /\ fileBeforeSave = file
    /\ probeIn = NoProbe
    /\ probeOut = NoOut

probeVars == <<probeIn, probeOut>>

\* run_check calls check_for_new_listings: new_matching_listings = []
StartRun ==
    /\ pc = "Idle"
    /\ runNo < MaxRuns
    /\ \E c \in Filters : criteria' = c
    /\ pc' = "Fetching"
    /\ src' = 1
    /\ new_matching_listings' = <<>>
    /\ runNo' = runNo + 1
    /\ runStartKnown' = known_listings
    /\ runIds' = {}
    /\ saveCount' = 0
    /\ prevResponses' = curResponses
    /\ curResponses' = <<>>
    /\ notified' = "none"
    /\ UNCHANGED <<response, listings, pos, known_listings, file, lastSave,
                   fileBeforeSave, continuity, stateLost, reported, rejected,
                   probeVars>>

\* session.get / raise_for_status / BeautifulSoup for source src
Fetch ==
    /\ pc = "Fetching"
    /\ \E r \in Responses : /\ response' = r
                            /\ curResponses' = Append(curResponses, r)
    /\ pc' = "Extracting"
    /\ UNCHANGED <<src, listings, pos, known_listings, file,
                   new_matching_listings, criteria, runNo, runStartKnown,
                   runIds, saveCount, lastSave, fileBeforeSave, prevResponses,
                   continuity, stateLost, reported, notified, rejected,
                   probeVars>>

\* a failed source that ends the run's loop over the sources
AfterExtract_abort(resp) == IF resp.ok THEN "Classifying" ELSE "Persisting"

\* scrape_listings always returns its list to the loop over the records
AfterExtract(resp) == "Classifying"

\* scrape_listings over the responses and sources of the model, evaluated once
ScrapedListings ==
    [r \in Responses, u \in 1..NumSources |-> scrape_listings(r, u)]

\* the rest of scrape_listings: the rows of the page, or the except handler
Extract ==
    /\ pc = "Extracting"
    /\ listings' = ScrapedListings[response, src]
    /\ pos' = 1
    /\ runIds' = runIds \cup {listings'[i].id : i \in 1..Len(listings')}
    /\ pc' = AfterExtract(response)
    /\ UNCHANGED <<src, response, known_listings, file, new_matching_listings,
                   criteria, runNo, runStartKnown, saveCount, lastSave,
                   fileBeforeSave, prevResponses, curResponses, continuity,
                   stateLost, reported, notified, rejected,
                   probeVars>>

\* one iteration of  for listing in listings
ClassifyOne ==
    /\ pc = "Classifying"
    /\ pos <= Len(listings)
    /\ LET listing == listings[pos]
       IN  IF listing.id \notin known_listings
           THEN /\ known_listings' = MarkKnown(known_listings, listing.id)
                /\ IF meets_criteria(listing, criteria)
                   THEN /\ new_matching_listings' =
                               Append(new_matching_listings, listing)
                        /\ UNCHANGED rejected
                   ELSE /\ rejected' = rejected \cup {listing.id}
                        /\ UNCHANGED new_matching_listings
           ELSE UNCHANGED <<known_listings, new_matching_listings, rejected>>
    /\ pos' = pos + 1
    /\ UNCHANGED <<pc, src, response, listings, file, criteria, runNo,
                   runStartKnown, runIds, saveCount, lastSave, fileBeforeSave,
                   prevResponses, curResponses, continuity, stateLost,
                   reported, notified, probeVars>>

\* a loop that returns after its last source without saving
AfterSource_nosave(s) == IF s < NumSources THEN "Fetching" ELSE "Done"

\* for url in URLS_TO_MONITOR: next source, or fall out of the loop
AfterSource(s) == IF s < NumSources THEN "Fetching" ELSE "Persisting"

\* end of the records of one source: time.sleep(2), next url
EndSource ==
    /\ pc = "Classifying"
    /\ pos > Len(listings)
    /\ pc' = AfterSource(src)
    /\ src' = src + 1
    /\ UNCHANGED <<response, listings, pos, known_listings, file,
                   new_matching_listings, criteria, runNo, runStartKnown,
                   runIds, saveCount, lastSave, fileBeforeSave, prevResponses,
                   curResponses, continuity, stateLost, reported, notified,
                   rejected,
                   probeVars>>

MatchCount(id) ==
    Cardinality({i \in 1..Len(new_matching_listings) :
                     new_matching_listings[i].id = id})

MatchIds == {new_matching_listings[i].id : i \in 1..Len(new_matching_listings)}

\* save_known_listings(), then return new_matching_listings
Persist ==
    /\ pc = "Persisting"
    /\ \E outcome \in SaveOutcomes :
           /\ file' = save_known_listings(known_listings, file, outcome)
           /\ lastSave' = outcome
    /\ fileBeforeSave' = file
    /\ saveCount' = saveCount + 1
    /\ reported' = [once |-> reported.once \cup MatchIds,
                    more |-> reported.more
                               \cup (MatchIds \cap reported.once)
                               \cup {id \in MatchIds : MatchCount(id) > 1}]
    /\ pc' = "Done"
    /\ UNCHANGED <<src, response, listings, pos, known_listings,
                   new_matching_listings, criteria, runNo, runStartKnown,
                   runIds, prevResponses, curResponses, continuity, stateLost,
                   notified, rejected,
                   probeVars>>

\* run_check: send_email_notification(new_listings) when there are any;
\* a delivery error is caught and logged
Notify ==
    /\ pc = "Done"
    /\ IF new_matching_listings # <<>>
       THEN \E delivered \in BOOLEAN :
                notified' = IF delivered THEN "sent" ELSE "failed"
       ELSE notified' = "skipped"
    /\ pc' = "Idle"
    /\ src' = 0
    /\ response' = Failed
    /\ listings' = <<>>
    /\ pos' = 0
    /\ new_matching_listings' = <<>>
    /\ continuity' = "same"
    /\ UNCHANGED <<known_listings, file, criteria, runNo, runStartKnown,
                   runIds, saveCount, lastSave, fileBeforeSave, prevResponses,
                   curResponses, stateLost, reported, rejected,
                   probeVars>>

\* single-run mode: the next run is a new process, SSLVMonitor() loads the file
Restart ==
    /\ pc = "Idle"
    /\ runNo >= 1
    /\ runNo < MaxRuns
    /\ continuity = "same"
    /\ \E readOk \in BOOLEAN :
           /\ known_listings' = load_known_listings(file, readOk)
           /\ continuity' = IF lastSave = "ok" /\ readOk THEN "reloaded"
                            ELSE "lost"
    /\ stateLost' = (stateLost \/ continuity' = "lost")
    /\ UNCHANGED <<pc, src, response, listings, pos, file,
                   new_matching_listings, criteria, runNo, runStartKnown,
                   runIds, saveCount, lastSave, fileBeforeSave, prevResponses,
                   curResponses, reported, notified, rejected,
                   probeVars>>

Next ==
    \/ StartRun
    \/ Fetch
    \/ Extract
    \/ ClassifyOne
    \/ EndSource
    \/ Persist
    \/ Notify
    \/ Restart

Spec == Init /\ [][Next]_vars

\* main() with RUN_MODE = "single" and RUN_IMMEDIATELY: one monitor, one
\* run_check, then the process exits
RunOnce ==
    /\ runNo = 0
    /\ StartRun

NextSingle ==
    \/ RunOnce
    \/ Fetch
    \/ Extract
    \/ ClassifyOne
    \/ EndSource
    \/ Persist
    \/ Notify

\* every step of a run terminates: the fetch has a timeout, the loops are
\* over finite lists, the run is called as soon as the monitor is built
SingleRunSpec ==
    /\ Init
    /\ [][NextSingle]_vars
    /\ WF_vars(RunOnce) /\ WF_vars(Fetch) /\ WF_vars(Extract)
    /\ WF_vars(ClassifyOne) /\ WF_vars(EndSource) /\ WF_vars(Persist)
    /\ WF_vars(Notify)

----------------------------------------------------------------------------
(* The pure functions on their own: meets_criteria over records and        *)
(* filters, scrape_listings over pages                                     *)

pipelineVars == <<pc, src, response, listings, pos, known_listings, file,
                  new_matching_listings, criteria, runNo, runStartKnown,
                  runIds, saveCount, lastSave, fileBeforeSave, prevResponses,
                  curResponses, continuity, stateLost, reported, rejected,
                  notified>>

PipelineUnused ==
    /\ PipelineIdle
    /\ file = [st |-> "absent", ids |-> {}]
    /\ known_listings = {}
    /\ runStartKnown = {}
    /\ fileBeforeSave = file

MatchPrices == {0, 10000 * 100 - 1, 10000 * 100, 50000 * 100,
                150000 * 100, 150000 * 100 + 1}
MatchAreas  == {0, 50 * 100 - 1, 50 * 100, 80 * 100}
MatchTitles == {<<>>, TxtMaja, TxtZeme, TxtOlaine}
MatchDescriptions == {<<>>, TxtBojats, TxtOlaine,
                      TxtOlaine \o Separator \o TxtBojats}

InitMatch ==
    /\ PipelineUnused
    /\ \E p \in MatchPrices, a \in MatchAreas, t \in MatchTitles,
          d \in MatchDescriptions, c \in MatchFilters :
           probeIn = [kind |-> "match",
                      listing |-> [price |-> p, area |-> a, title |-> t,
                                   description |-> d],
                      crit |-> c]
    /\ probeOut = NoOut

Evaluate ==
    /\ probeIn.kind = "match"
    /\ ~probeOut.done
    /\ probeOut' = [done |-> TRUE,
                    result |-> meets_criteria(probeIn.listing, probeIn.crit)]
    /\ UNCHANGED <<probeIn, pipelineVars>>

SpecMatch == InitMatch /\ [][Evaluate]_vars

RECURSIVE SeqsUpTo(_, _)
SeqsUpTo(S, n) ==
    IF n = 0 THEN {<<>>}
    ELSE LET shorter == SeqsUpTo(S, n - 1)
         IN  shorter \cup {Append(q, x) : q \in shorter, x \in S}

InitScrape ==
    /\ PipelineUnused
    /\ \E page \in SeqsUpTo(RowCatalogue, MaxRows) :
           probeIn = [kind |-> "scrape", page |-> page]
    /\ probeOut = NoOut

Scrape ==
    /\ probeIn.kind = "scrape"
    /\ ~probeOut.done
    /\ probeOut' = [done |-> TRUE,
                    listings |-> scrape_listings(Ok(probeIn.page), 1)]
    /\ UNCHANGED <<probeIn, pipelineVars>>

SpecScrape == InitScrape /\ [][Scrape]_vars

----------------------------------------------------------------------------
(* Properties *)

InRun == pc # "Idle"

PersistedIds == IF file.st = "ok" THEN file.ids ELSE {}

IdsOf(recs) == {recs[i].id : i \in 1..Len(recs)}

\* C1: idempotence.  When a run sees the same responses as the run before
\* it, and is made by the same monitor or by a fresh monitor that loaded the
\* state the previous run persisted, it returns an empty match list.
C1_Idempotence ==
    (/\ pc = "Done"
     /\ runNo >= 2
     /\ curResponses = prevResponses
     /\ continuity \in {"same", "reloaded"})
        => new_matching_listings = <<>>

\* the second run of a fresh monitor over unchanged pages, under relaxed
\* criteria, with an id the first run rejected and another it reported
C1_Witness ==
    /\ pc = "Done"
    /\ runNo >= 2
    /\ curResponses = prevResponses
    /\ continuity = "reloaded"
    /\ criteria = Relaxed
    /\ runIds \cap rejected # {}
    /\ runIds \cap reported.once # {}
    /\ new_matching_listings = <<>>

\* C2 as stated: after a run completes, the persisted id set contains every
\* id scrape_listings returned during the run.
C2_PersistedAfterRun ==
    pc = "Done" => (file.st = "ok" /\ runIds \subseteq file.ids)

\* C2 amended: after a run whose save succeeded, the persisted id set
\* contains every id scrape_listings returned during the run, matched or not.
C2_PersistedAfterSuccessfulSave ==
    (pc = "Done" /\ lastSave = "ok")
        => (file.st = "ok" /\ runIds \subseteq file.ids)

\* a saved run with an id first seen in this run and rejected by the filter
C2_Witness ==
    /\ pc = "Done"
    /\ lastSave = "ok"
    /\ \E id \in runIds : /\ id \notin runStartKnown
                          /\ id \in rejected
                          /\ id \in file.ids

\* C3 as stated: over any sequence of runs no id is returned twice, and an
\* id once rejected is never returned.
C3_ReportedAtMostOnce ==
    /\ reported.more = {}
    /\ rejected \cap reported.once = {}

\* C3 amended: the same, over any sequence of runs in which no monitor was
\* constructed after a failed save or with a failed load of the state file.
C3_ReportedAtMostOnceWhileStateKept ==
    ~stateLost => (/\ reported.more = {}
                   /\ rejected \cap reported.once = {})

\* a later run by a reloaded monitor, under relaxed criteria, meets an id
\* that an earlier run rejected, and a page that lists one id twice
C3_Witness ==
    /\ pc = "Done"
    /\ runNo >= 2
    /\ ~stateLost
    /\ continuity = "reloaded"
    /\ criteria = Relaxed
    /\ runIds \cap rejected # {}
    /\ \E i \in 1..Len(curResponses) : curResponses[i] = Ok(PageB)
    /\ reported.once # {}

\* C4: a failed save leaves the durable file with the content it had before
\* the save, and the in-memory set as it was.
C4_FailedSaveKeepsFile ==
    (pc = "Done" /\ lastSave \in {"open_fail", "write_fail"})
        => (file = fileBeforeSave /\ runStartKnown \subseteq known_listings)

\* C5: meets_criteria returns true exactly when the four conditions of the
\* rule hold; a zero price passes the price bounds, a zero area the area
\* bound.
C5_Rule(l, c) ==
    LET haystack == Lower(l.title \o <<" ">> \o l.description)
    IN  /\ (~(l.price > 0)
              \/ (c.min_price <= l.price /\ l.price <= c.max_price))
        /\ (~(l.area > 0) \/ l.area >= c.min_area)
        /\ (c.keywords_include = <<>>
              \/ \E k \in 1..Len(c.keywords_include) :
                     Contains(haystack, Lower(c.keywords_include[k])))
        /\ (c.keywords_exclude = <<>>
              \/ \A k \in 1..Len(c.keywords_exclude) :
                     ~Contains(haystack, Lower(c.keywords_exclude[k])))

C5_MatchesRule ==
    (probeIn.kind = "match" /\ probeOut.done)
        => /\ probeOut.result \in BOOLEAN
           /\ probeOut.result = C5_Rule(probeIn.listing, probeIn.crit)

\* a record priced exactly at max_price with unknown area is accepted
C5_Witness ==
    /\ probeIn.kind = "match"
    /\ probeOut.done
    /\ probeIn.listing.price = probeIn.crit.max_price
    /\ probeIn.listing.area = 0
    /\ probeIn.crit.keywords_include # <<>>
    /\ probeOut.result = TRUE

\* C6: the phases of a run follow Idle, (Fetching, Extracting, Classifying)
\* per source in order, Persisting, Done; the save runs exactly once, after
\* the last source and before the matches are returned and notified; the
\* notification step leaves the in-memory and persisted seen-state alone.
C6_PhaseStep ==
    \/ /\ pc = "Idle"
       /\ (pc' = "Idle" \/ (pc' = "Fetching" /\ src' = 1))
    \/ /\ pc = "Fetching"
       /\ pc' = "Extracting" /\ src' = src
    \/ /\ pc = "Extracting"
       /\ pc' = "Classifying" /\ src' = src
    \/ /\ pc = "Classifying"
       /\ \/ pc' = "Classifying" /\ src' = src
          \/ src < NumSources /\ pc' = "Fetching" /\ src' = src + 1
          \/ src = NumSources /\ pc' = "Persisting"
    \/ /\ pc = "Persisting"
       /\ pc' = "Done"
       /\ saveCount' = saveCount + 1
       /\ new_matching_listings' = new_matching_listings
    \/ /\ pc = "Done"
       /\ pc' = "Idle"
       /\ notified' \in {"sent", "failed", "skipped"}
       /\ known_listings' = known_listings
       /\ file' = file

C6_PhaseOrder ==
    /\ [][C6_PhaseStep]_vars
    /\ [][file' # file => pc = "Persisting"]_vars
    /\ [](pc \in {"Fetching", "Extracting", "Classifying", "Persisting"}
            => (saveCount = 0 /\ notified = "none"))
    /\ [](pc = "Done" => (saveCount = 1 /\ notified = "none"))

\* a run whose notification failed after the state was saved
C6_Witness ==
    /\ pc = "Idle"
    /\ notified = "failed"
    /\ saveCount = 1
    /\ lastSave = "ok"
    /\ runIds \subseteq PersistedIds

\* C7: a failed source contributes zero records and changes neither the
\* known set nor the matches; the remaining sources are still processed and
\* the run reaches the save and returns.
C7_FailStep ==
    (pc = "Extracting" /\ ~response.ok)
        => /\ listings' = <<>>
           /\ pc' = "Classifying"
           /\ src' = src
           /\ known_listings' = known_listings
           /\ new_matching_listings' = new_matching_listings

C7_SourceFailureIsolated ==
    /\ [][C7_FailStep]_vars
    /\ [](pc = "Done" =>
            /\ Len(curResponses) = NumSources
            /\ \A i \in 1..NumSources :
                   IdsOf(scrape_listings(curResponses[i], i))
                       \subseteq known_listings)
    /\ ((pc = "Extracting" /\ ~response.ok) ~> (pc = "Done"))

\* the last source failed, the matches of the first one are returned
C7_Witness ==
    /\ pc = "Done"
    /\ curResponses[1].ok
    /\ ~curResponses[NumSources].ok
    /\ new_matching_listings # <<>>
    /\ IdsOf(new_matching_listings) \subseteq known_listings

\* C8: during a run the known set contains the set the run started with.
C8_Monotone ==
    InRun => /\ runStartKnown \subseteq known_listings
             /\ Cardinality(known_listings) >= Cardinality(runStartKnown)

\* a run that started non-empty, grew, had a failed source and a failed save
C8_Witness ==
    /\ pc = "Done"
    /\ runStartKnown # {}
    /\ known_listings # runStartKnown
    /\ lastSave = "write_fail"
    /\ \E i \in 1..Len(curResponses) : ~curResponses[i].ok
    /\ rejected # {}

\* C9 as stated: one record, in page order, for every listing row whose id
\* is non-empty after the prefix is stripped and that has a cell with a
\* hyperlink, and none for any other row.
C9_ClaimedEligible(row) ==
    /\ IsListingRow(row)
    /\ Tail(row.idattr) # <<>>
    /\ \E i \in 1..Len(row.cells) : row.cells[i].href # <<>>

C9_IdSeq(recs) == [i \in 1..Len(recs) |-> recs[i].id]

C9_OneRecordPerLinkedEntry ==
    (probeIn.kind = "scrape" /\ probeOut.done)
        => LET rows == SelectSeq(probeIn.page, C9_ClaimedEligible)
           IN  C9_IdSeq(probeOut.listings)
                   = [i \in 1..Len(rows) |-> Tail(rows[i].idattr)]

\* C9 amended: one record, in page order, for every listing row that has at
\* least four cells, one of them with a hyperlink whose target is non-empty,
\* and whose id is non-empty after every occurrence of the prefix is
\* removed; none for any other row; every record's id is non-empty.
C9_Eligible(row) ==
    /\ row.idattr # <<>>
    /\ row.idattr[1] = "tr_"
    /\ \E i \in 1..Len(row.idattr) : row.idattr[i] # "tr_"
    /\ Len(row.cells) >= 4
    /\ \E i \in 1..Len(row.cells) : row.cells[i].href # <<>>

C9_OneRecordPerUsableEntry ==
    (probeIn.kind = "scrape" /\ probeOut.done)
        => LET rows == SelectSeq(probeIn.page, C9_Eligible)
           IN  /\ C9_IdSeq(probeOut.listings)
                     = [i \in 1..Len(rows) |->
                           SelectSeq(rows[i].idattr, LAMBDA t : t # "tr_")]
               /\ \A i \in 1..Len(probeOut.listings) :
                      probeOut.listings[i].id # <<>>

\* a page whose middle row has no link: the rows around it are extracted
C9_Witness ==
    /\ probeIn.kind = "scrape"
    /\ probeOut.done
    /\ probeIn.page = <<RowA1, RowA3, RowA2>>
    /\ C9_IdSeq(probeOut.listings) = << <<"a1">>, <<"a2">> >>

\* C10: the description joins, in cell order, the texts of the cells that
\* are non-empty, differ from the title, and hold neither a currency marker
\* (sign or code) nor an area marker (unicode or ASCII).
C10_Description(row) ==
    LET ti    == TitleCellIndex(row.cells)
        title == row.cells[ti].text
    IN  Join(SelectSeq(CellTexts(row.cells),
                       LAMBDA t : /\ t # <<>>
                                  /\ t # title
                                  /\ ~HasPriceMarker(t)
                                  /\ ~HasAreaMarker(t)))

C10_DescriptionOmitsMarkers ==
    (probeIn.kind = "scrape" /\ probeOut.done)
        => LET rows == SelectSeq(probeIn.page, C9_Eligible)
           IN  [i \in 1..Len(probeOut.listings) |->
                    probeOut.listings[i].description]
                   = [i \in 1..Len(rows) |-> C10_Description(rows[i])]

====
